---- MODULE Spec2Model ----
(***************************************************************************)
(* Playback engine of the acoustic sensor dashboard                        *)
(* (src/acoustic_dashboard.py, class AcousticSensorDashboard).             *)
(*                                                                         *)
(* The dashboard object is shared, without any lock, by the UI handler     *)
(* threads (start_simulation, stop_simulation, the readers) and by the     *)
(* clock threads running _simulation_loop.  Every handler is modelled      *)
(* statement by statement: one action per statement that reads or writes   *)
(* a field of the shared object.                                           *)
(*                                                                         *)
(* Units: update intervals are in tenths of a second (5 = 0.5 s), so that  *)
(* the 0.5 s steps of the interval slider and the 0.1 s floor of the clock *)
(* are integers.  Durations are in seconds (duration_minutes * 60).        *)
(***************************************************************************)
EXTENDS Integers, FiniteSets, Sequences, TLC

\* ---------------------------------------------------------------- bounds
\* Number of start_simulation calls that pass the "already running" test.
MaxSessions == 2
\* The same, in the specification that runs a reader beside the writers.
MaxReadSessions == 1
\* Largest duration, in seconds, a start is called with.
MaxTotalSeconds == 1
\* Largest absolute value of an index / sample count a reader passes.
MaxIndex == 3
\* Largest duration, in seconds, generate_simulation_data is given when it is
\* checked by itself.
MaxGenSeconds == 4
\* Largest value a draw of the random generator delivers (values 0..MaxNoise).
MaxNoise == 1
\* Number of direct calls of generate_simulation_data.
MaxCalls == 2

\* ------------------------------------------------------ program constants
\* thread.join(timeout=1): one second, in tenths of a second.
JoinTimeout == 10
\* max(0.1, float(update_interval)): 0.1 s, in tenths of a second.
MinClockInterval == 1
\* max(1, int(update_interval)): the smallest range() step.
MinIntervalSeconds == 1
\* min(self.current_time_index + 1, 100)
HeatmapCap == 100
\* interval_slider: value=1 (second), in tenths of a second.
DefaultInterval == 10
\* interval_slider: minimum=0.5, step=0.5, in tenths of a second.
SliderStep == 5
\* interval_slider: maximum=5 is the tenth position of the slider.
SliderPositions == 10

\* ----------------------------------------------------------------- inputs
\* The handler threads that may call start_simulation.
Starters == {"s1", "s2"}
Durations == 0..MaxTotalSeconds
\* The duration the reader specification plays: a series of more than one row.
ReadDurations == {MaxTotalSeconds + 1}
\* 0.5 s (the slider's minimum, shorter than the join timeout) and 1 s.
UpdateIntervals == {5, DefaultInterval}
SessionIds == 1..MaxSessions
\* The intervals the interval slider offers: 0.5 s, 1 s, ... 5 s.
SliderIntervals == {SliderStep * k : k \in 1..SliderPositions}
\* What a direct caller of start_simulation may pass: the slider's intervals
\* and non-positive ones; durations from -1 s to MaxGenSeconds.
GenIntervals == {0 - SliderStep, 0} \cup SliderIntervals
GenDurations == (0 - 1)..MaxGenSeconds

VARIABLES
    acoustic_data,          \* "rows" | "empty" | "None": outcome of load_data
    simulation_running,     \* self.simulation_running
    simulation_thread,      \* self.simulation_thread: 0 is None, else a thread
    current_time_index,     \* self.current_time_index (the cursor)
    simulation_data,        \* self.simulation_data
    simulation_start_time,  \* self.simulation_start_time: 0 is None
    session,                \* how many starts have set simulation_running
    starts_left,            \* how many more starts the model admits
    intervals,              \* the update intervals the callers pass
    durations,              \* the durations (in seconds) the callers pass
    callers,                \* the handler threads that call start_simulation
    gen_log,                \* results of direct generate_simulation_data calls
    thread,                 \* the threading.Thread objects ever created
    start_pc, start_args, start_session, start_result,
    stop_pc, stop_thread, stop_idle, stop_result,
    rd_pc, rd_op, rd_a, rd_b, rd_c, rd_result

\* start_*: the start_simulation call of each caller (its position, its
\* arguments, the session it opened, its last result).  stop_*: the
\* stop_simulation call (its position, the thread it joins, whether the flag
\* was already down when it cleared it, its last result).  rd_*: the reader.
shared == <<acoustic_data, simulation_running, simulation_thread,
            current_time_index, simulation_data, simulation_start_time>>
start_vars == <<start_pc, start_args, start_session, start_result>>
stop_vars == <<stop_pc, stop_thread, stop_idle, stop_result>>
counters == <<session, starts_left, intervals, durations, callers, gen_log>>
rd_vars == <<rd_pc, rd_op, rd_a, rd_b, rd_c, rd_result>>
vars == <<shared, counters, thread, start_vars, stop_vars, rd_vars>>

\* ------------------------------------------------------------ the series
\* self.simulation_data = [] of __init__.
EmptyList == [kind |-> "list", session |-> 0, N |-> 0]
\* generate_simulation_data returned None.
NoneData == [kind |-> "None", session |-> 0, N |-> 0]
\* generate_simulation_data raised.
Raised == [kind |-> "raise", session |-> 0, N |-> 0]

\* int(update_interval), the interval being in tenths of a second: int()
\* truncates towards zero.
IntOfInterval(update_interval) ==
    IF update_interval >= 0 THEN update_interval \div 10
    ELSE 0 - ((0 - update_interval) \div 10)

\* len(range(0, total_seconds, interval_seconds))
RangeLen(total_seconds, interval_seconds) ==
    IF total_seconds <= 0 THEN 0
    ELSE (total_seconds + interval_seconds - 1) \div interval_seconds

Max(a, b) == IF a >= b THEN a ELSE b
Min(a, b) == IF a <= b THEN a ELSE b

\* The number of rows generate_simulation_data builds.
SeriesLength(duration_seconds, update_interval) ==
    RangeLen(duration_seconds,
             Max(MinIntervalSeconds, IntOfInterval(update_interval)))

\* time_points: row k is appended for i = k * interval_seconds of the range
\* and holds start_time + timedelta(seconds=i * update_interval); the offset
\* from start_time is kept, in tenths of a second.
time_points(duration_seconds, update_interval) ==
    LET interval_seconds ==
            Max(MinIntervalSeconds, IntOfInterval(update_interval))
    IN [k \in 0..(SeriesLength(duration_seconds, update_interval) - 1) |->
            (k * interval_seconds) * update_interval]

\* generate_simulation_data, called by the start that opened session s.
generate_simulation_data(duration_seconds, update_interval, s) ==
    IF acoustic_data = "None" THEN Raised
    ELSE IF acoustic_data = "empty" THEN NoneData
    ELSE [kind |-> "series", session |-> s,
          N |-> SeriesLength(duration_seconds, update_interval)]

IsSeries(d) == d.kind = "series"

\* The values np.random.normal may deliver.  The generator is the
\* process-wide one, seeded by the operating system and never seeded by the
\* program: each draw is any of them.
NoiseValues == 0..MaxNoise

\* The random part of the three matrices data may hold: row k of each is
\* base + noise + trend, where base and trend depend on the arguments and
\* on k alone and the noise is a fresh draw (lines 65, 71 and 78).
Noises(data) ==
    LET rows == 0..((IF IsSeries(data) THEN data.N ELSE 0) - 1)
    IN [freq_data : [rows -> NoiseValues],
        level_data : [rows -> NoiseValues],
        pressure_data : [rows -> NoiseValues]]

\* ------------------------------------------------------------- the clocks
NoThread == [pc |-> "unused", interval |-> 0, tmp |-> 0]
NoArgs == [duration |-> 0, interval |-> 0]

\* interval = max(0.1, float(update_interval))
ClockInterval(update_interval) == Max(MinClockInterval, update_interval)

\* A thread whose target has returned ("done") or raised ("failed").
Ended(how) == [pc |-> how, interval |-> 0, tmp |-> 0]

\* Thread.is_alive(): started and not yet terminated.
IsAlive(t) == thread[t].pc \in {"running", "index", "sleep", "store"}

\* The dashboard as __init__ leaves it, and every handler idle.
Constructed ==
    /\ acoustic_data \in {"rows", "empty", "None"}
    /\ gen_log = <<>>
    /\ simulation_running = FALSE
    /\ simulation_thread = 0
    /\ current_time_index = 0
    /\ simulation_data = EmptyList
    /\ simulation_start_time = 0
    /\ session = 0
    /\ thread = [t \in SessionIds |-> NoThread]
    /\ start_pc = [c \in Starters |-> "idle"]
    /\ start_args = [c \in Starters |-> NoArgs]
    /\ start_session = [c \in Starters |-> 0]
    /\ start_result = [c \in Starters |-> "none"]
    /\ stop_pc = "idle"
    /\ stop_thread = 0
    /\ stop_idle = FALSE
    /\ stop_result = "none"
    /\ rd_pc = "idle"
    /\ rd_op = "none"
    /\ rd_a = 0
    /\ rd_b = 0
    /\ rd_c = 0
    /\ rd_result = "none"

Init ==
    /\ Constructed
    /\ starts_left = MaxSessions
    /\ intervals = UpdateIntervals
    /\ durations = Durations
    /\ callers = {"s1"}

InitRead ==
    /\ Constructed
    /\ starts_left = MaxReadSessions
    /\ intervals = {DefaultInterval}
    /\ durations = ReadDurations
    /\ callers = {"s1"}

\* ------------------------------------------------------- start_simulation
\* Starts that passed the test of line 93 and have not yet set the flag.
Admitted == Cardinality({c \in Starters : start_pc[c] = "set"})

\* start_simulation_check without its test: every start restarts.
start_simulation_check_restart(c) ==
    /\ c \in callers
    /\ start_pc[c] = "idle"
    /\ Admitted < starts_left
    /\ \E d \in durations, u \in intervals :
         /\ start_pc' = [start_pc EXCEPT ![c] = "set"]
         /\ start_args' = [start_args EXCEPT
                             ![c] = [duration |-> d, interval |-> u]]
         /\ start_result' = [start_result EXCEPT ![c] = "none"]
         /\ UNCHANGED start_session
    /\ UNCHANGED <<shared, counters, thread, stop_vars, rd_vars>>

\* if self.simulation_running: return "Simulation already running!"
start_simulation_check(c) ==
    /\ c \in callers
    /\ start_pc[c] = "idle"
    /\ \E d \in durations, u \in intervals :
         IF simulation_running
         THEN /\ start_result' = [start_result EXCEPT ![c] = "already running"]
              /\ UNCHANGED <<start_pc, start_args, start_session>>
         ELSE /\ Admitted < starts_left
              /\ start_pc' = [start_pc EXCEPT ![c] = "set"]
              /\ start_args' = [start_args EXCEPT
                                  ![c] = [duration |-> d, interval |-> u]]
              /\ start_result' = [start_result EXCEPT ![c] = "none"]
              /\ UNCHANGED start_session
    /\ UNCHANGED <<shared, counters, thread, stop_vars, rd_vars>>

\* self.simulation_running = True
start_simulation_set(c) ==
    /\ start_pc[c] = "set"
    /\ simulation_running' = TRUE
    /\ session' = session + 1
    /\ starts_left' = starts_left - 1
    /\ UNCHANGED <<intervals, durations, callers, gen_log>>
    /\ start_session' = [start_session EXCEPT ![c] = session + 1]
    /\ start_pc' = [start_pc EXCEPT ![c] = "generate"]
    /\ UNCHANGED <<acoustic_data, simulation_thread, current_time_index,
                   simulation_data, simulation_start_time, thread,
                   start_args, start_result, stop_vars, rd_vars>>

\* self.simulation_data = self.generate_simulation_data(...)
start_simulation_generate(c) ==
    /\ start_pc[c] = "generate"
    /\ LET data == generate_simulation_data(start_args[c].duration,
                                            start_args[c].interval,
                                            start_session[c])
       IN IF data.kind = "raise"
          THEN /\ start_pc' = [start_pc EXCEPT ![c] = "idle"]
               /\ start_result' = [start_result EXCEPT ![c] = "raised"]
               /\ start_args' = [start_args EXCEPT ![c] = NoArgs]
               /\ start_session' = [start_session EXCEPT ![c] = 0]
               /\ UNCHANGED simulation_data
          ELSE /\ simulation_data' = data
               /\ start_pc' = [start_pc EXCEPT ![c] = "time"]
               /\ UNCHANGED <<start_result, start_args, start_session>>
    /\ UNCHANGED <<acoustic_data, simulation_running, simulation_thread,
                   current_time_index, simulation_start_time, counters, thread,
                   stop_vars, rd_vars>>

\* self.simulation_start_time = datetime.now()
start_simulation_time(c) ==
    /\ start_pc[c] = "time"
    /\ simulation_start_time' = start_session[c]
    /\ start_pc' = [start_pc EXCEPT ![c] = "reset"]
    /\ UNCHANGED <<acoustic_data, simulation_running, simulation_thread,
                   current_time_index, simulation_data, counters, thread,
                   start_args, start_session, start_result, stop_vars, rd_vars>>

\* self.current_time_index = 0
start_simulation_reset(c) ==
    /\ start_pc[c] = "reset"
    /\ current_time_index' = 0
    /\ start_pc' = [start_pc EXCEPT ![c] = "thread"]
    /\ UNCHANGED <<acoustic_data, simulation_running, simulation_thread,
                   simulation_data, simulation_start_time, counters, thread,
                   start_args, start_session, start_result, stop_vars, rd_vars>>

\* self.simulation_thread = threading.Thread(target=self._simulation_loop, ...)
start_simulation_thread(c) ==
    /\ start_pc[c] = "thread"
    /\ thread' = [thread EXCEPT ![start_session[c]] =
                    [pc |-> "created",
                     interval |-> ClockInterval(start_args[c].interval),
                     tmp |-> 0]]
    /\ simulation_thread' = start_session[c]
    /\ start_pc' = [start_pc EXCEPT ![c] = "launch"]
    /\ UNCHANGED <<acoustic_data, simulation_running, current_time_index,
                   simulation_data, simulation_start_time, counters,
                   start_args, start_session, start_result, stop_vars, rd_vars>>

\* self.simulation_thread.daemon = True; self.simulation_thread.start();
\* return "Simulation started!".  Both statements go through the shared
\* field: a thread that was already started raises RuntimeError.
start_simulation_launch(c) ==
    /\ start_pc[c] = "launch"
    /\ IF thread[simulation_thread].pc = "created"
       THEN /\ thread' = [thread EXCEPT ![simulation_thread].pc = "running"]
            /\ start_result' = [start_result EXCEPT ![c] = "started"]
       ELSE /\ start_result' = [start_result EXCEPT ![c] = "raised"]
            /\ UNCHANGED thread
    /\ start_pc' = [start_pc EXCEPT ![c] = "idle"]
    /\ start_args' = [start_args EXCEPT ![c] = NoArgs]
    /\ start_session' = [start_session EXCEPT ![c] = 0]
    /\ UNCHANGED <<shared, counters, stop_vars, rd_vars>>

\* ------------------------------------------------------- _simulation_loop
\* while self.simulation_running and ...: the first conjunct.
simulation_loop_running(t) ==
    /\ thread[t].pc = "running"
    /\ thread' = [thread EXCEPT ![t] =
                    IF simulation_running THEN [@ EXCEPT !.pc = "index"]
                    ELSE Ended("done")]
    /\ UNCHANGED <<shared, counters, start_vars, stop_vars, rd_vars>>

\* simulation_loop_index putting the flag down when playback has ended.
simulation_loop_index_finish(t) ==
    /\ thread[t].pc = "index"
    /\ thread' = [thread EXCEPT ![t] =
                    IF ~IsSeries(simulation_data) THEN Ended("failed")
                    ELSE IF current_time_index < simulation_data.N
                    THEN [@ EXCEPT !.pc = "sleep"]
                    ELSE Ended("done")]
    /\ simulation_running' =
          IF IsSeries(simulation_data)
             /\ current_time_index >= simulation_data.N
          THEN FALSE ELSE simulation_running
    /\ UNCHANGED <<acoustic_data, simulation_thread, current_time_index,
                   simulation_data, simulation_start_time, counters,
                   start_vars, stop_vars, rd_vars>>

\* ... and self.current_time_index < len(self.simulation_data['time_points'])
\* Subscripting None or a list with a string raises TypeError: the thread dies.
simulation_loop_index(t) ==
    /\ thread[t].pc = "index"
    /\ thread' = [thread EXCEPT ![t] =
                    IF ~IsSeries(simulation_data) THEN Ended("failed")
                    ELSE IF current_time_index < simulation_data.N
                    THEN [@ EXCEPT !.pc = "sleep"]
                    ELSE Ended("done")]
    /\ UNCHANGED <<shared, counters, start_vars, stop_vars, rd_vars>>

\* time.sleep(interval), then the load of self.current_time_index += 1
simulation_loop_sleep(t) ==
    /\ thread[t].pc = "sleep"
    /\ thread' = [thread EXCEPT ![t].pc = "store", ![t].tmp = current_time_index]
    /\ UNCHANGED <<shared, counters, start_vars, stop_vars, rd_vars>>

\* simulation_loop_store of a clock that never advances the cursor.
simulation_loop_store_stuck(t) ==
    /\ thread[t].pc = "store"
    /\ current_time_index' = thread[t].tmp
    /\ thread' = [thread EXCEPT ![t].pc = "running", ![t].tmp = 0]
    /\ UNCHANGED <<acoustic_data, simulation_running, simulation_thread,
                   simulation_data, simulation_start_time, counters,
                   start_vars, stop_vars, rd_vars>>

\* the store of self.current_time_index += 1
simulation_loop_store(t) ==
    /\ thread[t].pc = "store"
    /\ current_time_index' = thread[t].tmp + 1
    /\ thread' = [thread EXCEPT ![t].pc = "running", ![t].tmp = 0]
    /\ UNCHANGED <<acoustic_data, simulation_running, simulation_thread,
                   simulation_data, simulation_start_time, counters,
                   start_vars, stop_vars, rd_vars>>

\* -------------------------------------------------------- stop_simulation
\* stop_simulation_set rewinding the cursor as well.
stop_simulation_set_rewind ==
    /\ stop_pc = "idle"
    /\ simulation_running' = FALSE
    /\ current_time_index' = 0
    /\ stop_pc' = "join"
    /\ stop_idle' = ~simulation_running
    /\ stop_result' = "none"
    /\ stop_thread' = 0
    /\ UNCHANGED <<acoustic_data, simulation_thread, simulation_data,
                   simulation_start_time, counters, thread, start_vars,
                   rd_vars>>

\* self.simulation_running = False
stop_simulation_set ==
    /\ stop_pc = "idle"
    /\ simulation_running' = FALSE
    /\ stop_pc' = "join"
    /\ stop_idle' = ~simulation_running
    /\ stop_result' = "none"
    /\ stop_thread' = 0
    /\ UNCHANGED <<acoustic_data, simulation_thread, current_time_index,
                   simulation_data, simulation_start_time, counters, thread,
                   start_vars, rd_vars>>

\* if self.simulation_thread: self.simulation_thread.join(timeout=1)
\* The call: no thread returns at once, a thread that was created but not
\* yet started raises RuntimeError, any other thread is waited for.
stop_simulation_join ==
    /\ stop_pc = "join"
    /\ IF simulation_thread = 0
       THEN /\ stop_pc' = "idle"
            /\ stop_result' = "stopped"
            /\ UNCHANGED stop_thread
       ELSE IF thread[simulation_thread].pc = "created"
       THEN /\ stop_pc' = "idle"
            /\ stop_result' = "raised"
            /\ UNCHANGED stop_thread
       ELSE /\ stop_pc' = "joining"
            /\ stop_thread' = simulation_thread
            /\ UNCHANGED stop_result
    /\ UNCHANGED <<shared, counters, thread, start_vars, stop_idle, rd_vars>>

\* The wait of join(timeout=1) can end with the thread still alive only when
\* the thread cannot leave its loop within the second: it is in a sleep at
\* least as long as the timeout, or the flag has been set again by a start.
JoinCanTimeOut(t) ==
    /\ IsAlive(t)
    /\ \/ thread[t].pc = "sleep" /\ thread[t].interval >= JoinTimeout
       \/ simulation_running

\* join returns (the thread ended, or the timeout elapsed);
\* return "Simulation stopped."
stop_simulation_return ==
    /\ stop_pc = "joining"
    /\ \/ ~IsAlive(stop_thread)
       \/ JoinCanTimeOut(stop_thread)
    /\ stop_pc' = "idle"
    /\ stop_result' = "stopped"
    /\ UNCHANGED <<shared, counters, thread, start_vars, stop_thread, stop_idle,
                   rd_vars>>

\* ---------------------------------------------------------------- readers
\* One reader call at a time.  rd_a, rd_b, rd_c are the call's locals and,
\* once it has returned (rd_pc = "idle"), what it returned:
\*   status   rd_a, rd_b: cursor and series length of the progress value,
\*            rd_c: the data-point count
\*   window   rd_a: rows of the data matrix, rd_b: rows of the timestamps
\*   spectrum rd_a: time_index (a local only), rd_b: the row served
\*   heatmap  rd_a: num_samples (a local only), rd_b: rows of the matrix,
\*            rd_c: time labels
\* rd_result: "fallback" | "not running" | "live" | "rows" | "row" | "raised"

\* ReaderFrame of a reader that rewinds the cursor.
ReaderFrame_Rewind ==
    /\ current_time_index' = 0
    /\ UNCHANGED <<acoustic_data, simulation_running, simulation_thread,
                   simulation_data, simulation_start_time, counters, thread,
                   start_vars, stop_vars>>

\* What the other threads' fields are left as by any reader step.
ReaderFrame == UNCHANGED <<shared, counters, thread, start_vars, stop_vars>>

\* The call begins: it moves to pc, its locals cleared.
ReaderEnter(op, pc) ==
    /\ rd_op' = op
    /\ rd_pc' = pc
    /\ rd_a' = 0
    /\ rd_b' = 0
    /\ rd_c' = 0
    /\ rd_result' = "none"

\* The call returns result without having read any row.
ReaderReturn(op, result) ==
    /\ rd_op' = op
    /\ rd_pc' = "idle"
    /\ rd_a' = 0
    /\ rd_b' = 0
    /\ rd_c' = 0
    /\ rd_result' = result

\* ServesFallback testing the series alone, not the flag.
ServesFallback_SeriesOnly == ~IsSeries(simulation_data)

\* if not self.simulation_running or self.simulation_data is None:
\*     return the historical figure
ServesFallback == ~simulation_running \/ simulation_data.kind = "None"

\* len(a[:n]) for a sequence of N rows: a negative n counts from the end.
SliceLen(n, N) == IF n >= 0 THEN Min(n, N) ELSE Max(N + n, 0)

\* The arguments a caller may pass for time_index / num_samples.
IndexArgs == (0 - MaxIndex)..MaxIndex

\* get_simulation_status ----------------------------------------------
\* if not self.simulation_running: return "Simulation not running"
status_check ==
    /\ rd_pc = "idle"
    /\ IF ~simulation_running
       THEN ReaderReturn("status", "not running")
       ELSE ReaderEnter("status", "elapsed")
    /\ ReaderFrame

\* elapsed = datetime.now() - self.simulation_start_time
\* (TypeError while the start time is still None)
status_elapsed ==
    /\ rd_pc = "elapsed"
    /\ IF simulation_start_time = 0
       THEN ReaderReturn("status", "raised")
       ELSE /\ rd_pc' = "progress"
            /\ UNCHANGED <<rd_op, rd_a, rd_b, rd_c, rd_result>>
    /\ ReaderFrame

\* progress = (cursor / len(time_points)) * 100 if self.simulation_data else 0
\* An empty list and None are falsy: progress 0, kept as 0 / 1.
\* A series of no rows raises ZeroDivisionError.
status_progress ==
    /\ rd_pc = "progress"
    /\ IF ~IsSeries(simulation_data)
       THEN /\ rd_a' = 0
            /\ rd_b' = 1
            /\ rd_pc' = "points"
            /\ UNCHANGED <<rd_op, rd_c, rd_result>>
       ELSE IF simulation_data.N = 0
       THEN ReaderReturn("status", "raised")
       ELSE /\ rd_a' = current_time_index
            /\ rd_b' = simulation_data.N
            /\ rd_pc' = "points"
            /\ UNCHANGED <<rd_op, rd_c, rd_result>>
    /\ ReaderFrame

\* return f"LIVE ... Data Points: {self.current_time_index + 1}"
status_points ==
    /\ rd_pc = "points"
    /\ rd_c' = current_time_index + 1
    /\ rd_pc' = "idle"
    /\ rd_result' = "live"
    /\ UNCHANGED <<rd_op, rd_a, rd_b>>
    /\ ReaderFrame

\* create_real_time_pressure_dashboard, create_real_time_level_analysis ----
\* (the same statements on 'pressure_data' and on 'level_data')
window_check ==
    /\ rd_pc = "idle"
    /\ IF ServesFallback
       THEN ReaderReturn("window", "fallback")
       ELSE ReaderEnter("window", "data")
    /\ ReaderFrame

\* current_data = self.simulation_data[...][:self.current_time_index + 1]
\* (TypeError when simulation_data is a list or None)
window_data ==
    /\ rd_pc = "data"
    /\ IF ~IsSeries(simulation_data)
       THEN ReaderReturn("window", "raised")
       ELSE /\ rd_a' = SliceLen(current_time_index + 1, simulation_data.N)
            /\ rd_pc' = "time"
            /\ UNCHANGED <<rd_op, rd_b, rd_c, rd_result>>
    /\ ReaderFrame

\* time_points = self.simulation_data['time_points'][:cursor + 1], then the
\* figure: current_data[:, 0] raises IndexError on the array of no rows.
window_time ==
    /\ rd_pc = "time"
    /\ IF ~IsSeries(simulation_data) \/ rd_a = 0
       THEN ReaderReturn("window", "raised")
       ELSE /\ rd_b' = SliceLen(current_time_index + 1, simulation_data.N)
            /\ rd_pc' = "idle"
            /\ rd_result' = "rows"
            /\ UNCHANGED <<rd_op, rd_a, rd_c>>
    /\ ReaderFrame

\* create_real_time_acoustic_spectrum(time_index=None) ----------------------
spectrum_check ==
    /\ rd_pc = "idle"
    /\ IF ServesFallback
       THEN ReaderReturn("spectrum", "fallback")
       ELSE ReaderEnter("spectrum", "default")
    /\ ReaderFrame

\* if time_index is None: time_index = self.current_time_index
\* The caller's argument is drawn here, where it is first used.
spectrum_default ==
    /\ rd_pc = "default"
    /\ rd_op = "spectrum"
    /\ \/ rd_a' = current_time_index
       \/ \E time_index \in IndexArgs : rd_a' = time_index
    /\ rd_pc' = "clamp"
    /\ UNCHANGED <<rd_op, rd_b, rd_c, rd_result>>
    /\ ReaderFrame

\* if time_index >= len(freq_data): time_index = len(freq_data) - 1
spectrum_clamp ==
    /\ rd_pc = "clamp"
    /\ IF ~IsSeries(simulation_data)
       THEN ReaderReturn("spectrum", "raised")
       ELSE /\ rd_a' = IF rd_a >= simulation_data.N
                       THEN simulation_data.N - 1 ELSE rd_a
            /\ rd_pc' = "index"
            /\ UNCHANGED <<rd_op, rd_b, rd_c, rd_result>>
    /\ ReaderFrame

\* freq_values = self.simulation_data['freq_data'][time_index]
\* A negative index counts from the end; IndexError outside -N .. N-1.
spectrum_index ==
    /\ rd_pc = "index"
    /\ IF \/ ~IsSeries(simulation_data)
          \/ rd_a >= simulation_data.N
          \/ rd_a < 0 - simulation_data.N
       THEN ReaderReturn("spectrum", "raised")
       ELSE /\ rd_b' = IF rd_a < 0 THEN simulation_data.N + rd_a ELSE rd_a
            /\ rd_a' = 0
            /\ rd_pc' = "idle"
            /\ rd_result' = "row"
            /\ UNCHANGED <<rd_op, rd_c>>
    /\ ReaderFrame

\* create_real_time_acoustic_heatmap(num_samples=None) ----------------------
heatmap_check ==
    /\ rd_pc = "idle"
    /\ IF ServesFallback
       THEN ReaderReturn("heatmap", "fallback")
       ELSE ReaderEnter("heatmap", "default")
    /\ ReaderFrame

\* if num_samples is None: num_samples = min(self.current_time_index + 1, 100)
heatmap_default ==
    /\ rd_pc = "default"
    /\ rd_op = "heatmap"
    /\ \/ rd_a' = Min(current_time_index + 1, HeatmapCap)
       \/ \E num_samples \in IndexArgs : rd_a' = num_samples
    /\ rd_pc' = "freq"
    /\ UNCHANGED <<rd_op, rd_b, rd_c, rd_result>>
    /\ ReaderFrame

\* recent_freq_data = self.simulation_data['freq_data'][:num_samples]
heatmap_freq ==
    /\ rd_pc = "freq"
    /\ IF ~IsSeries(simulation_data)
       THEN ReaderReturn("heatmap", "raised")
       ELSE /\ rd_b' = SliceLen(rd_a, simulation_data.N)
            /\ rd_pc' = "labels"
            /\ UNCHANGED <<rd_op, rd_a, rd_c, rd_result>>
    /\ ReaderFrame

\* time_labels = [... for t in self.simulation_data['time_points'][:num_samples]]
heatmap_labels ==
    /\ rd_pc = "labels"
    /\ IF ~IsSeries(simulation_data)
       THEN ReaderReturn("heatmap", "raised")
       ELSE /\ rd_c' = SliceLen(rd_a, simulation_data.N)
            /\ rd_a' = 0
            /\ rd_pc' = "idle"
            /\ rd_result' = "rows"
            /\ UNCHANGED <<rd_op, rd_b>>
    /\ ReaderFrame

Reader ==
    \/ status_check \/ status_elapsed \/ status_progress \/ status_points
    \/ window_check \/ window_data \/ window_time
    \/ spectrum_check \/ spectrum_default \/ spectrum_clamp \/ spectrum_index
    \/ heatmap_check \/ heatmap_default \/ heatmap_freq \/ heatmap_labels

\* ------------------------------------------------------------------ system
\* The writers of the session: start, stop and the clocks.
Control ==
    \/ \E c \in Starters : start_simulation_check(c)
    \/ \E c \in Starters : start_simulation_set(c)
    \/ \E c \in Starters : start_simulation_generate(c)
    \/ \E c \in Starters : start_simulation_time(c)
    \/ \E c \in Starters : start_simulation_reset(c)
    \/ \E c \in Starters : start_simulation_thread(c)
    \/ \E c \in Starters : start_simulation_launch(c)
    \/ \E t \in SessionIds : simulation_loop_running(t)
    \/ \E t \in SessionIds : simulation_loop_index(t)
    \/ \E t \in SessionIds : simulation_loop_sleep(t)
    \/ \E t \in SessionIds : simulation_loop_store(t)
    \/ stop_simulation_set
    \/ stop_simulation_join
    \/ stop_simulation_return

Next == Control \/ Reader

\* The writers alone (no reader writes a field of the session).
Spec == Init /\ [][Control]_vars

\* The writers together with one reader.
SpecRead == InitRead /\ [][Next]_vars

\* A step of the clock thread t.
ClockStep(t) ==
    \/ simulation_loop_running(t) \/ simulation_loop_index(t)
    \/ simulation_loop_sleep(t) \/ simulation_loop_store(t)

\* The writers under a scheduler that is fair to every clock thread: a clock
\* that can take its next step (the test, the end of its sleep, the store)
\* eventually takes it.
InitLive ==
    /\ Constructed
    /\ starts_left = MaxReadSessions
    /\ intervals = UpdateIntervals
    /\ durations = ReadDurations
    /\ callers = {"s1"}

SpecLive ==
    InitLive /\ [][Control]_vars /\ \A t \in SessionIds : WF_vars(ClockStep(t))

\* Two threads calling start_simulation, possibly at the same time: the
\* method takes no lock, so nothing orders the steps of the two calls.
InitOverlap ==
    /\ Constructed
    /\ starts_left = MaxSessions
    /\ intervals = {DefaultInterval}
    /\ durations = ReadDurations
    /\ callers = Starters

SpecOverlap == InitOverlap /\ [][Control]_vars

\* The steps of start_simulation.
Start ==
    \/ \E c \in Starters : start_simulation_check(c)
    \/ \E c \in Starters : start_simulation_set(c)
    \/ \E c \in Starters : start_simulation_generate(c)
    \/ \E c \in Starters : start_simulation_time(c)
    \/ \E c \in Starters : start_simulation_reset(c)
    \/ \E c \in Starters : start_simulation_thread(c)
    \/ \E c \in Starters : start_simulation_launch(c)

\* start_simulation by itself, on every configuration a caller may pass.
InitGen ==
    /\ Constructed
    /\ starts_left = MaxSessions
    /\ intervals = GenIntervals
    /\ durations = GenDurations
    /\ callers = {"s1"}

SpecGen == InitGen /\ [][Start]_vars

\* A direct call dashboard.generate_simulation_data(duration, interval): what
\* it returned is appended to gen_log with its arguments.
generate_call ==
    /\ Len(gen_log) < MaxCalls
    /\ \E d \in durations, u \in intervals :
         LET data == generate_simulation_data(d, u, 0)
         IN \E m \in Noises(data) :
               gen_log' = Append(gen_log,
                                 [duration |-> d, interval |-> u,
                                  data |-> data, matrices |-> m])
    /\ UNCHANGED <<shared, session, starts_left, intervals, durations,
                   callers, thread, start_vars, stop_vars, rd_vars>>

\* generate_simulation_data by itself, called several times on one dashboard.
SpecSeed == Init /\ [][generate_call]_vars

\* ================================================================== claims
\* The steps of one stop_simulation call.
StopStep ==
    stop_simulation_set \/ stop_simulation_join \/ stop_simulation_return

\* No session is running and no start is on its way.
SessionIdle == ~simulation_running /\ \A c \in callers : start_pc[c] = "idle"

\* The fields of the session: status, cursor, series, start time, clock.
SessionFields ==
    <<simulation_running, current_time_index, simulation_data,
      simulation_start_time, simulation_thread, thread>>

\* The first step of a reader call.
ReaderCall == status_check \/ window_check \/ spectrum_check \/ heatmap_check

\* C1: in every reachable state the cursor lies in 0 .. N-1, N being the
\* number of rows of the installed series (stated for series of at least
\* one row).
C1_CursorInRange ==
    (IsSeries(simulation_data) /\ simulation_data.N >= 1)
        => /\ 0 <= current_time_index
           /\ current_time_index <= simulation_data.N - 1

\* C2: once a stop_simulation that stopped a running session has returned,
\* the clock it joined never writes the cursor again (stated for as long as
\* the session stays stopped).
C2_NoClockWriteAfterStop ==
    [][(/\ stop_pc = "idle" /\ stop_result = "stopped"
        /\ ~stop_idle /\ stop_thread # 0
        /\ ~simulation_running)
          => ~simulation_loop_store(stop_thread)]_vars

\* A clock that has passed its loop test: it will write the cursor.
WillIncrement(t) == thread[t].pc \in {"sleep", "store"}

\* C3: at most one clock thread is alive and about to advance the cursor:
\* the clock joined by a stop that stopped a running session does not go on
\* advancing the cursor beside the clock of a later session (stated for the
\* states in which no start or stop call is under way).
C3_AtMostOneClock ==
    (/\ stop_pc = "idle" /\ stop_result = "stopped"
     /\ ~stop_idle /\ stop_thread # 0
     /\ \A c \in callers : start_pc[c] = "idle")
        => ~(/\ WillIncrement(stop_thread)
             /\ \E t \in SessionIds : t > stop_thread /\ WillIncrement(t))

\* C4: a start_simulation called while the session is running answers
\* "already running" and leaves cursor, series, start time, flag and clock
\* threads as they are.
C4_StartWhileRunningRejected ==
    [][\A c \in callers :
          (simulation_running /\ start_simulation_check(c))
             => /\ start_result'[c] = "already running"
                /\ start_pc'[c] = "idle"
                /\ UNCHANGED <<SessionFields, session>>]_vars

\* A start was rejected in a session whose playback had reached its end.
C4_Witness ==
    \E c \in callers :
       /\ start_result[c] = "already running"
       /\ simulation_running
       /\ IsSeries(simulation_data)
       /\ simulation_data.N >= 1
       /\ current_time_index >= simulation_data.N

\* C5: a windowed read of a running session never takes more rows than
\* cursor + 1, with or without a sample count from the caller.
C5_WindowWithinCursor ==
    [][/\ window_data => (rd_pc' = "time" => rd_a' <= current_time_index + 1)
       /\ window_time => (rd_result' = "rows" => rd_b' <= current_time_index + 1)
       /\ heatmap_freq => (rd_pc' = "labels" => rd_b' <= current_time_index + 1)
       /\ heatmap_labels => (rd_result' = "rows" => rd_c' <= current_time_index + 1)
      ]_vars

\* C6: the single-row read of a running session serves a row between 0 and
\* the cursor whatever index it was given, and does not fail (stated for
\* series of at least one row).
C6_SpectrumRowClamped ==
    [][(spectrum_index /\ IsSeries(simulation_data) /\ simulation_data.N >= 1)
          => /\ rd_result' = "row"
             /\ 0 <= rd_b'
             /\ rd_b' <= current_time_index]_vars

\* C7: a read called while the session is not running answers "not running"
\* (status) or serves the historical fallback (the four figures); a stop
\* puts the flag down and only a start's own assignment puts it up again.
C7_FallbackWhenNotRunning ==
    [][/\ (~simulation_running /\ ReaderCall)
             => /\ rd_pc' = "idle"
                /\ rd_result' = IF rd_op' = "status" THEN "not running"
                                ELSE "fallback"
       /\ stop_simulation_set => ~simulation_running'
       /\ (~simulation_running /\ simulation_running')
             => \E c \in callers : start_simulation_set(c)]_vars

\* Start, then stop: the flag is down and a windowed read served the
\* fallback although a series is still installed.
C7_Witness ==
    /\ ~simulation_running
    /\ \A c \in callers : start_pc[c] = "idle" /\ start_result[c] = "started"
    /\ stop_pc = "idle" /\ stop_result = "stopped" /\ stop_thread # 0
    /\ IsSeries(simulation_data) /\ simulation_data.N >= 1
    /\ rd_op = "window" /\ rd_result = "fallback"

\* C8: a stop_simulation of a session that is already idle changes no field
\* of the session, does not raise and returns its status string.
C8_StopIdempotent ==
    [][(SessionIdle /\ StopStep)
          => /\ UNCHANGED SessionFields
             /\ stop_result' # "raised"
             /\ stop_pc' = "idle" => stop_result' = "stopped"]_vars

\* A stop that found the session already stopped has returned.
C8_Witness ==
    /\ stop_pc = "idle" /\ stop_result = "stopped" /\ stop_idle
    /\ session >= 1
    /\ \E c \in callers : start_result[c] = "started"
    /\ IsSeries(simulation_data)
    /\ stop_thread # 0 /\ ~IsAlive(stop_thread)
    /\ SessionIdle

\* C9: what get_simulation_status reports comes from one state of the
\* session: the cursor of its progress value is the cursor of its data-point
\* count.
C9_StatusSnapshot ==
    (rd_op = "status" /\ rd_result = "live") => rd_c = rd_a + 1

\* C10: a reader that finds the session running finds the series of that
\* session installed, with the rows 0 .. cursor in it.
C10_RunningImpliesSeries ==
    [][(simulation_running /\ ReaderCall)
          => /\ IsSeries(simulation_data)
             /\ simulation_data.session = session
             /\ current_time_index < simulation_data.N]_vars

\* A configuration the specification calls valid: positive duration, positive
\* interval, and at least one row in floor(duration / interval).
ValidConfiguration(a) ==
    /\ a.duration > 0
    /\ a.interval > 0
    /\ (10 * a.duration) \div a.interval >= 1

\* A start call that has passed the "already running" test.
Starting(c) == start_pc[c] # "idle"

\* C11: a start_simulation with an invalid configuration mutates nothing:
\* while such a call is under way on a freshly constructed dashboard the
\* status is still idle, cursor and series are those of __init__ and no
\* clock thread exists.
C11_InvalidConfigurationRejected ==
    \A c \in callers :
       (Starting(c) /\ ~ValidConfiguration(start_args[c]))
          => /\ ~simulation_running
             /\ current_time_index = 0
             /\ simulation_data = EmptyList
             /\ simulation_thread = 0

\* A start call that has installed the series it generated.
Generated(c) == start_pc[c] \in {"time", "reset", "thread", "launch"}

\* C12: for every valid configuration whose interval is one the slider
\* offers, the generated series has floor(duration / interval) rows.
C12_RowCountIsFloor ==
    \A c \in callers :
       (/\ Generated(c) /\ IsSeries(simulation_data)
        /\ ValidConfiguration(start_args[c])
        /\ start_args[c].interval \in SliderIntervals)
          => simulation_data.N =
                (10 * start_args[c].duration) \div start_args[c].interval

\* C13: for every valid configuration, row i of the generated series is
\* stamped start + i * interval (offsets in tenths of a second).
C13_TimestampOfRow ==
    \A c \in callers :
       (/\ Generated(c) /\ IsSeries(simulation_data)
        /\ ValidConfiguration(start_args[c]))
          => LET stamps == time_points(start_args[c].duration,
                                       start_args[c].interval)
             IN \A i \in DOMAIN stamps :
                   stamps[i] = i * start_args[c].interval

\* C14: a status reported for a running session of N rows shows
\* progress = 100 * c / (N - 1) and c + 1 data points, c being its cursor, and
\* never more than N data points.  The reported progress is
\* 100 * rd_a / rd_b; the equality is stated cross-multiplied, for the calls
\* that read one and the same cursor twice and for series of two rows or more.
C14_ProgressAndPoints ==
    (/\ rd_op = "status" /\ rd_result = "live"
     /\ IsSeries(simulation_data) /\ simulation_data.N >= 2
     /\ rd_c = rd_a + 1)
        => /\ 100 * rd_a * (simulation_data.N - 1) = 100 * (rd_c - 1) * rd_b
           /\ rd_c <= simulation_data.N

\* C15: in a running session a windowed read without an index takes
\* cursor + 1 rows of the matrix and of the timestamps, the data-point count
\* get_simulation_status reports in the same state.
C15_WindowRowsArePoints ==
    [][/\ (window_data /\ rd_pc' = "time")
             => rd_a' = current_time_index + 1
       /\ (window_time /\ rd_result' = "rows")
             => rd_b' = current_time_index + 1
       /\ status_points => rd_c' = current_time_index + 1]_vars

\* C16: the status goes from idle to running by a start only and from running
\* to idle by a stop only; no step of a clock changes the status or the
\* installed series, so a session played to its end stays running until
\* stop_simulation is called.
C16_StatusTransitions ==
    [][/\ (\E t \in SessionIds : ClockStep(t))
             => UNCHANGED <<simulation_running, simulation_data>>
       /\ (simulation_running /\ ~simulation_running') => stop_simulation_set
       /\ (~simulation_running /\ simulation_running')
             => \E c \in callers : start_simulation_set(c)]_vars

\* Playback has reached its end, the clock has returned, nobody has called
\* stop: the session is still running.
C16_Witness ==
    /\ simulation_running
    /\ IsSeries(simulation_data) /\ simulation_data.N >= 1
    /\ current_time_index >= simulation_data.N
    /\ simulation_thread # 0 /\ thread[simulation_thread].pc = "done"
    /\ stop_pc = "idle" /\ stop_result = "none"
    /\ \A c \in callers : start_pc[c] = "idle" /\ start_result[c] = "started"

\* C17: the session holds no series whenever it is idle: once a stop that
\* stopped a running session has returned, its clock gone, and no start or
\* stop call is under way, no series is installed.
C17_NoSeriesWhenIdle ==
    (/\ ~simulation_running
     /\ stop_pc = "idle" /\ stop_result = "stopped" /\ ~stop_idle
     /\ stop_thread # 0 /\ ~IsAlive(stop_thread)
     /\ \A c \in callers : start_pc[c] = "idle" /\ start_result[c] = "started")
        => ~IsSeries(simulation_data)

\* C18: a stop_simulation of a running session whose join timed out, the
\* clock being still alive when it returns, does not return the result of a
\* stop that saw the clock exit.
C18_TimeoutReported ==
    [][(/\ stop_simulation_return
        /\ ~stop_idle /\ ~simulation_running
        /\ IsAlive(stop_thread))
          => stop_result' # "stopped"]_vars

\* C19: when a clock dies of an exception the status becomes idle.
C19_ClockFailureStops ==
    [][\A t \in SessionIds :
          (simulation_loop_index(t) /\ thread'[t].pc = "failed")
             => ~simulation_running']_vars

\* C20: no step of get_simulation_status or of a real-time figure changes the
\* status, the cursor, the series or the start time, whether the session is
\* running or idle.
C20_ReadersNeverWrite ==
    [][Reader => UNCHANGED <<simulation_running, current_time_index,
                             simulation_data, simulation_start_time>>]_vars

\* A windowed read has served rows of a running session whose cursor has
\* advanced.
C20_Witness ==
    /\ rd_pc = "idle" /\ rd_op = "window" /\ rd_result = "rows"
    /\ simulation_running
    /\ IsSeries(simulation_data)
    /\ current_time_index >= 1
    /\ rd_b = current_time_index + 1

\* C21: two calls of generate_simulation_data on the same dashboard with the
\* same duration and interval (the method takes no seed) return identical
\* frequency, level and pressure matrices.
C21_SameInputsSameMatrices ==
    \A i, j \in DOMAIN gen_log :
       (/\ gen_log[i].duration = gen_log[j].duration
        /\ gen_log[i].interval = gen_log[j].interval)
          => gen_log[i].matrices = gen_log[j].matrices

\* stop_simulation has been called at least once.
StopCalled == stop_pc # "idle" \/ stop_result # "none"

\* C22: under a scheduler fair to the clocks, the clock of a running session
\* that is never stopped reaches the end of playback and terminates, and a
\* clock whose session has been stopped terminates unless a later start puts
\* the flag up again.
C22_ClockTerminates ==
    \A t \in SessionIds :
       /\ (IsAlive(t) /\ simulation_running /\ IsSeries(simulation_data))
             ~> \/ StopCalled
                \/ /\ thread[t].pc = "done"
                   /\ current_time_index >= simulation_data.N
       /\ (IsAlive(t) /\ ~simulation_running)
             ~> (simulation_running \/ ~IsAlive(t))

\* The clock of a session that was stopped before the end of its playback
\* has terminated, the session still stopped.
C22_Witness ==
    /\ ~simulation_running
    /\ stop_pc = "idle" /\ stop_result = "stopped" /\ ~stop_idle
    /\ stop_thread # 0 /\ thread[stop_thread].pc = "done"
    /\ IsSeries(simulation_data)
    /\ current_time_index < simulation_data.N
    /\ \A c \in callers : start_pc[c] = "idle" /\ start_result[c] = "started"

\* C23: when start_simulation calls overlap on an idle session (nobody having
\* called stop), one of them launches a clock and the others are rejected:
\* two clocks are never alive together and no start fails.
C23_OverlappingStartsAtomic ==
    (~StopCalled /\ acoustic_data = "rows")
        => /\ Cardinality({t \in SessionIds : IsAlive(t)}) <= 1
           /\ \A c \in callers : start_result[c] # "raised"

\* C24: a windowed read of a running session returns a data matrix and a
\* timestamp sequence of the same length.
C24_WindowSlicesSameLength ==
    (rd_pc = "idle" /\ rd_op = "window" /\ rd_result = "rows") => rd_a = rd_b

\* C25: once every start_simulation call has finished, normally or by an
\* exception, a session marked running has a series installed and a clock
\* thread that was launched (stated while nobody has called stop).
C25_RunningHasSeriesAndClock ==
    (/\ simulation_running
     /\ ~StopCalled
     /\ \A c \in callers : start_pc[c] = "idle")
        => /\ IsSeries(simulation_data)
           /\ simulation_thread # 0
           /\ thread[simulation_thread].pc \notin {"unused", "created"}

====
